---- MODULE Spec2Model ----
(***************************************************************************)
(* A model of todo_cli.py: the TODO block engine of one Python file.       *)
(*                                                                         *)
(* A text is a sequence of tokens.  The two markers are single tokens, and *)
(* so are a newline, a space, a backslash, a label "(k)", a priority name  *)
(* "[LOW]", the words "Due:" and "Assigned:", a date and a name.  The      *)
(* letters "n" and "x" are single characters.  No token is a prefix of     *)
(* another, so comparing token by token is comparing character by          *)
(* character.  In the real text the end marker ends with the three quotes  *)
(* the start marker begins with, so an end marker and a start marker can   *)
(* share them; such a text holds END before START, as <<END, SP, START>>   *)
(* does here.                                                              *)
(*                                                                         *)
(* The target file of add and complete exists.  A due date is given by its *)
(* year, month and day; the strings strptime accepts with a one-digit      *)
(* month or day are not among the inputs.                                  *)
(***************************************************************************)
EXTENDS Integers, Sequences, FiniteSets, TLC

VARIABLES
  file,    \* the text of the target file on disk
  origin,  \* the text the file held before the first command
  before,  \* the text the file held before the last command
  cmd,     \* the last command: its arguments and its outcome
  input,   \* the arguments of a function applied on its own
  output,  \* what the function returned
  pc       \* "cli" between commands; "call" and "ret" around the function

vars == <<file, origin, before, cmd, input, output, pc>>

(* ------------------------------ bounds --------------------------------- *)

\* add is disabled once the block holds this many lines
MaxTasks == 2

\* the largest label the model tells from other text
MaxLabel == MaxTasks + 2

(* ------------------------------ tokens --------------------------------- *)

TODO_START == "<START>"
TODO_END == "<END>"
NL == "NL"
SP == "SP"
BS == "BS"

Label(k) == "(" \o ToString(k) \o ")"

Labels == {Label(k) : k \in 1..MaxLabel}

PriorityNames == {"[LOW]", "[MEDIUM]", "[HIGH]", "[URGENT]"}

\* str.strip() and \s: the whitespace of the model
Whitespace == {NL, SP}

\* the tokens whose first character is neither a letter nor a digit
Punctuation == {TODO_START, TODO_END, NL, SP, BS} \cup Labels \cup PriorityNames

(* --------------------------- text helpers ------------------------------ *)

Has(tok, text) == \E i \in 1..Len(text) : text[i] = tok

\* the first position >= from holding tok, 0 when there is none
Find(text, tok, from) ==
  IF \E i \in from..Len(text) : text[i] = tok
  THEN CHOOSE i \in from..Len(text) :
         text[i] = tok /\ \A j \in from..(i - 1) : text[j] # tok
  ELSE 0

RECURSIVE LStrip(_)
LStrip(s) == IF s # <<>> /\ Head(s) \in Whitespace THEN LStrip(Tail(s)) ELSE s

RECURSIVE RStrip(_)
RStrip(s) ==
  IF s # <<>> /\ s[Len(s)] \in Whitespace THEN RStrip(SubSeq(s, 1, Len(s) - 1)) ELSE s

Strip(s) == RStrip(LStrip(s))

\* str.splitlines() of a text that neither is empty nor ends with a newline
RECURSIVE SplitLines(_)
SplitLines(s) ==
  LET i == Find(s, NL, 1)
  IN IF i = 0 THEN <<s>>
     ELSE <<SubSeq(s, 1, i - 1)>> \o SplitLines(SubSeq(s, i + 1, Len(s)))

\* sep.join(parts)
RECURSIVE Join(_, _)
Join(parts, sep) ==
  IF parts = <<>> THEN <<>>
  ELSE IF Len(parts) = 1 THEN parts[1]
  ELSE parts[1] \o <<sep>> \o Join(Tail(parts), sep)

(* ------------------------ the start-to-end pattern --------------------- *)

\* START.*?END searched from the left: the first START and the first END after
\* it; <<0, 0>> when the pattern does not match
Span(text) ==
  LET i == Find(text, TODO_START, 1)
      j == IF i = 0 THEN 0 ELSE Find(text, TODO_END, i + 1)
  IN IF j = 0 THEN <<0, 0>> ELSE <<i, j>>

parse_todo_block(text) ==
  LET m == Span(text)
      content == Strip(SubSeq(text, m[1] + 1, m[2] - 1))
  IN IF m = <<0, 0>> THEN [matched |-> FALSE, todos |-> <<>>]
     ELSE [matched |-> TRUE,
           todos |-> IF content # <<>> THEN SplitLines(content) ELSE <<>>]

BothMarkers(text) == Has(TODO_START, text) /\ Has(TODO_END, text)

\* ensure_todo_block taking either marker for a block
ensure_todo_block_either(text) ==
  IF Has(TODO_START, text) \/ Has(TODO_END, text)
  THEN [added |-> FALSE, text |-> text]
  ELSE [added |-> TRUE, text |-> text \o <<NL, TODO_START, NL, TODO_END, NL>>]

\* the text ensure_todo_block leaves in the file, and what it returns
ensure_todo_block(text) ==
  IF BothMarkers(text)
  THEN [added |-> FALSE, text |-> text]
  ELSE [added |-> TRUE, text |-> text \o <<NL, TODO_START, NL, TODO_END, NL>>]

(* ------------------------------- re.sub -------------------------------- *)

\* The replacement template of re.sub, as the re module expands it: \\ is a
\* backslash, \n a newline, a backslash before another letter or a digit or at
\* the end is an error, and a backslash before anything else stays.
RECURSIVE Expand(_)
Expand(repl) ==
  IF repl = <<>> THEN [ok |-> TRUE, text |-> <<>>]
  ELSE IF Head(repl) # BS
  THEN LET r == Expand(Tail(repl))
       IN [ok |-> r.ok, text |-> <<Head(repl)>> \o r.text]
  ELSE IF Len(repl) = 1 THEN [ok |-> FALSE, text |-> <<>>]
  ELSE IF repl[2] = BS
  THEN LET r == Expand(Tail(Tail(repl)))
       IN [ok |-> r.ok, text |-> <<BS>> \o r.text]
  ELSE IF repl[2] = "n"
  THEN LET r == Expand(Tail(Tail(repl)))
       IN [ok |-> r.ok, text |-> <<NL>> \o r.text]
  ELSE IF repl[2] \in Punctuation
  THEN LET r == Expand(Tail(repl))
       IN [ok |-> r.ok, text |-> <<BS>> \o r.text]
  ELSE [ok |-> FALSE, text |-> <<>>]

\* every non-overlapping START.*?END span of text, from the left, replaced by by
RECURSIVE ReplaceSpans(_, _)
ReplaceSpans(text, by) ==
  LET m == Span(text)
  IN IF m = <<0, 0>> THEN text
     ELSE SubSeq(text, 1, m[1] - 1) \o by
            \o ReplaceSpans(SubSeq(text, m[2] + 1, Len(text)), by)

\* re.sub(START.*?END, new_block, content, flags=re.DOTALL)
re_sub(new_block, content) ==
  LET t == Expand(new_block)
  IN IF t.ok THEN [ok |-> TRUE, text |-> ReplaceSpans(content, t.text)]
     ELSE [ok |-> FALSE, text |-> content]

\* every \n?START.*?END\n? span of text, from the left, removed
RECURSIVE RemoveSpans(_)
RemoveSpans(text) ==
  LET m == Span(text)
      lo == IF m[1] > 1 /\ text[m[1] - 1] = NL THEN m[1] - 1 ELSE m[1]
      hi == IF m[2] < Len(text) /\ text[m[2] + 1] = NL THEN m[2] + 1 ELSE m[2]
  IN IF m = <<0, 0>> THEN text
     ELSE SubSeq(text, 1, lo - 1) \o RemoveSpans(SubSeq(text, hi + 1, Len(text)))

(* ---------------------------- task encoding ---------------------------- *)

\* An optional argument is a sequence: <<>> when it is absent (None), <<v>>
\* for a priority v, <<y, m, d>> for the due date y-m-d written with four, two
\* and two digits, and the tokens of the string for a task or an assignee.

format_priority(level) ==
  IF level = 1 THEN <<"[LOW]">>
  ELSE IF level = 2 THEN <<"[MEDIUM]">>
  ELSE IF level = 3 THEN <<"[HIGH]">>
  ELSE IF level = 4 THEN <<"[URGENT]">>
  ELSE <<>>

IsLeap(y) == (y % 4 = 0 /\ y % 100 # 0) \/ y % 400 = 0

DaysIn(y, m) ==
  IF m = 2 THEN (IF IsLeap(y) THEN 29 ELSE 28)
  ELSE IF m \in {4, 6, 9, 11} THEN 30 ELSE 31

\* datetime.strptime(due, "%Y-%m-%d") does not raise ValueError
strptime_ok(due) ==
  /\ due[1] \in 1..9999
  /\ due[2] \in 1..12
  /\ due[3] \in 1..DaysIn(due[1], due[2])

Digits(n, width) ==
  IF width = 2 /\ n < 10 THEN "0" \o ToString(n) ELSE ToString(n)

\* the text of a due date
DateStr(due) ==
  Digits(due[1], 4) \o "-" \o Digits(due[2], 2) \o "-" \o Digits(due[3], 2)

build_task_line(index, task, priority, due, assigned) ==
  LET p1 == <<(<<Label(index)>>)>>
      p2 == IF priority # <<>> /\ priority[1] # 0
            THEN <<format_priority(priority[1])>> ELSE <<>>
      p3 == <<task>>
      p4 == IF due # <<>> THEN <<(<<"Due:", SP, DateStr(due)>>)>> ELSE <<>>
      p5 == IF assigned # <<>> THEN <<(<<"Assigned:", SP>> \o assigned)>> ELSE <<>>
  IN IF due # <<>> /\ ~strptime_ok(due)
     THEN [ok |-> FALSE, line |-> <<>>]
     ELSE [ok |-> TRUE, line |-> Join(p1 \o p2 \o p3 \o p4 \o p5, SP)]

\* re.sub(r"^\(\d+\)", f"({i+1})", todo)
Renumber(todo, i) ==
  IF todo # <<>> /\ Head(todo) \in Labels
  THEN <<Label(i)>> \o Tail(todo) ELSE todo

\* f"{TODO_START}\n" + "\n".join(todos) + f"\n{TODO_END}"
NewBlock(todos) == <<TODO_START, NL>> \o Join(todos, NL) \o <<NL, TODO_END>>

\* the text add writes for the lines todos: the block substituted for the spans
\* of content when both markers are in it, appended otherwise
write_block(content, todos) ==
  IF BothMarkers(content)
  THEN re_sub(NewBlock(todos), content)
  ELSE [ok |-> TRUE, text |-> content \o <<NL>> \o NewBlock(todos)]

(* ------------------------------ commands ------------------------------- *)

\* todos.pop(id)
Pop(todos, id) ==
  LET at == IF id < 0 THEN Len(todos) + id + 1 ELSE id + 1
  IN [removed |-> todos[at],
      todos |-> SubSeq(todos, 1, at - 1) \o SubSeq(todos, at + 1, Len(todos))]

\* the range check without its lower bound
InvalidId_upper(id, todos) == id >= Len(todos)

\* id < 0 or id >= len(todos)
InvalidId(id, todos) == id < 0 \/ id >= Len(todos)

NoCmd ==
  [op |-> "none", result |-> "none", added |-> FALSE, task |-> <<>>,
   priority |-> <<>>, due |-> <<>>, assigned |-> <<>>, id |-> 0, line |-> <<>>]

Ran(c, text) ==
  /\ pc = "cli"
  /\ file' = text
  /\ before' = file
  /\ cmd' = c
  /\ UNCHANGED <<origin, input, output, pc>>

\* scan, of a directory that holds the file
Scan ==
  LET e == ensure_todo_block(file)
      todos == parse_todo_block(e.text).todos
  IN Ran([NoCmd EXCEPT !.op = "scan", !.added = e.added,
            !.result = IF e.added THEN "initialized"
                       ELSE IF todos # <<>> THEN "listed" ELSE "empty"],
         e.text)

\* clean, of a directory that holds the file
Clean ==
  IF BothMarkers(file)
  THEN Ran([NoCmd EXCEPT !.op = "clean", !.result = "removed"], RemoveSpans(file))
  ELSE Ran([NoCmd EXCEPT !.op = "clean", !.result = "skipped"], file)

\* add, of the file, which exists.  ensure_todo_block has written the file when
\* build_task_line or re.sub raises.
Add(task, priority, due, assigned) ==
  LET e == ensure_todo_block(file)
      content == e.text
      todos == parse_todo_block(content).todos
      new_index == Len(todos) + 1
      built == build_task_line(new_index, task, priority, due, assigned)
      w == write_block(content, Append(todos, built.line))
      c == [NoCmd EXCEPT !.op = "add", !.added = e.added, !.task = task,
              !.priority = priority, !.due = due, !.assigned = assigned]
  IN /\ Len(todos) < MaxTasks
     /\ IF ~built.ok THEN Ran([c EXCEPT !.result = "BadParameter"], content)
        ELSE IF ~w.ok
        THEN Ran([c EXCEPT !.result = "re.error", !.line = built.line], content)
        ELSE Ran([c EXCEPT !.result = "ok", !.line = built.line], w.text)

\* complete, of the file, which exists
Complete(id) ==
  LET p == parse_todo_block(file)
      popped == Pop(p.todos, id)
      updated_todos == [i \in 1..Len(popped.todos) |-> Renumber(popped.todos[i], i)]
      w == re_sub(NewBlock(updated_todos), file)
      c == [NoCmd EXCEPT !.op = "complete", !.id = id]
  IN IF p.todos = <<>> THEN Ran([c EXCEPT !.result = "no_todos"], file)
     ELSE IF InvalidId(id, p.todos) THEN Ran([c EXCEPT !.result = "invalid_id"], file)
     ELSE IF ~w.ok THEN Ran([c EXCEPT !.result = "re.error", !.line = popped.removed], file)
     ELSE Ran([c EXCEPT !.result = "ok", !.line = popped.removed], w.text)

(* ------------------------- the files and inputs ------------------------ *)

Line1 == <<Label(1), SP, "x">>

InitFiles ==
  { <<"x", NL>>,
    <<"x", NL, TODO_START, NL, TODO_END, NL>>,
    <<TODO_START, NL>> \o Line1 \o <<NL, TODO_END>>,
    <<TODO_START, NL>> \o Line1 \o <<NL, Label(2), SP, "x", BS, "n", "x", NL, TODO_END>>,
    <<TODO_START, NL, "x", NL, TODO_END>>,
    <<"x", NL, TODO_START>>,
    <<TODO_END, NL, "x">>,
    <<TODO_END, SP, TODO_START>>,
    <<"x", NL, TODO_START, NL>> \o Line1 \o <<NL, TODO_END, NL, "x", NL,
      TODO_START, NL, Label(1), SP, "n", NL, TODO_END, NL, "x">> }

Arg(task, priority, due, assigned) ==
  [task |-> task, priority |-> priority, due |-> due, assigned |-> assigned]

\* the arguments add is run with: a plain task, a task with every option, a
\* due date that is no calendar date, and tasks that hold a backslash
AddArgs ==
  { Arg(<<"x">>, <<>>, <<>>, <<>>),
    Arg(<<"x">>, <<2>>, <<2024, 2, 29>>, <<"kim">>),
    Arg(<<"x">>, <<>>, <<2024, 2, 30>>, <<>>),
    Arg(<<"x", BS, "n", "x">>, <<>>, <<>>, <<>>),
    Arg(<<BS, "x">>, <<>>, <<>>, <<>>) }

Ids == (0 - 1)..(MaxTasks + 1)

Init ==
  /\ file \in InitFiles
  /\ origin = file
  /\ before = file
  /\ cmd = NoCmd
  /\ input = <<>>
  /\ output = <<>>
  /\ pc = "cli"

Next ==
  \/ Scan
  \/ Clean
  \/ \E a \in AddArgs : Add(a.task, a.priority, a.due, a.assigned)
  \/ \E id \in Ids : Complete(id)

Spec == Init /\ [][Next]_vars

(* ------------------- the claims about the commands --------------------- *)

\* what the last command found in the file, and what it left there
Before == parse_todo_block(before).todos
After == parse_todo_block(file).todos

Succeeded(op) == cmd.op = op /\ cmd.result = "ok"

NoMarker(text) == ~Has(TODO_START, text) /\ ~Has(TODO_END, text)

\* the k-th line begins with the label (k), for every line
Contiguous(todos) ==
  \A k \in 1..Len(todos) : todos[k] # <<>> /\ Head(todos[k]) = Label(k)

Labelled(todos) ==
  \A k \in 1..Len(todos) : todos[k] # <<>> /\ Head(todos[k]) \in Labels

\* C1: after every add or complete that succeeds, the k-th line of the block
\* begins with the label (k).  Stated here for the files that held no marker
\* before the first command, whose blocks the commands alone have written; the
\* claim is about every file, these among them.
C1_ContiguousLabels ==
  (NoMarker(origin) /\ (Succeeded("add") \/ Succeeded("complete")))
    => Contiguous(After)

\* C2: an add whose due date is no calendar date fails with the malformed due
\* date error and leaves the text of the file as it was.
C2_BadDueLeavesFile ==
  (cmd.op = "add" /\ cmd.due # <<>> /\ cmd.due[3] > DaysIn(cmd.due[1], cmd.due[2]))
    => (cmd.result = "BadParameter" /\ file = before)

Pair == <<NL, TODO_START, NL, TODO_END, NL>>

\* C4: ensure_todo_block, as scan runs it, on a file that lacks a marker appends
\* one pair of markers and returns true; on a file that holds both markers it
\* returns false and leaves the text; and the call after a call always returns
\* false and leaves the text.
C4_EnsureOnce ==
  [][cmd'.op = "scan" =>
       /\ IF ~Has(TODO_START, file) \/ ~Has(TODO_END, file)
          THEN cmd'.added /\ file' = file \o Pair
          ELSE ~cmd'.added /\ file' = file
       /\ cmd.op = "scan" => (~cmd'.added /\ file' = file)]_vars

\* a second scan has found the pair the first one appended
C4_Witness ==
  /\ cmd.op = "scan" /\ ~cmd.added
  /\ ~NoMarker(origin) /\ (~Has(TODO_START, origin) \/ ~Has(TODO_END, origin))
  /\ file = origin \o Pair
  /\ before = file

\* the lines of todos but the one at the 0-based position id
Without(todos, id) == SubSeq(todos, 1, id) \o SubSeq(todos, id + 2, Len(todos))

\* C5: complete with a valid id on a block of N lines leaves the other N-1 lines
\* in their order, labelled (1)..(N-1).  Stated here for the blocks whose lines
\* all begin with a label; the claim is about whatever lines, these among them.
C5_CompleteRenumbers ==
  (Succeeded("complete") /\ Labelled(Before))
    => LET rest == Without(Before, cmd.id)
       IN /\ Len(After) = Len(Before) - 1
          /\ \A k \in 1..Len(rest) : After[k] = <<Label(k)>> \o Tail(rest[k])

NoBackslash(text) == ~Has(BS, text)

\* C6: after an add that succeeds, the block parsed from the file is the block
\* parsed before the add (empty when there was none to parse) followed by the
\* new line, which carries the label (previous length + 1).  Stated here for
\* the adds where neither the file nor the task holds a backslash; the claim is
\* about every add, these among them.
C6_AddAppends ==
  (Succeeded("add") /\ NoBackslash(before) /\ NoBackslash(cmd.task))
    => /\ After = Append(Before, cmd.line)
       /\ Head(cmd.line) = Label(Len(Before) + 1)

\* C7: complete with a negative id, an id >= the number of lines, no block or an
\* empty block leaves the text of the file and reports no tasks when there is
\* no line and an invalid id otherwise.
C7_CompleteRejects ==
  (cmd.op = "complete" /\ (Before = <<>> \/ cmd.id < 0 \/ cmd.id >= Len(Before)))
    => /\ file = before
       /\ cmd.result = IF Before = <<>> THEN "no_todos" ELSE "invalid_id"

\* a negative id was refused on a block that holds lines
C7_Witness ==
  /\ cmd.op = "complete" /\ cmd.id < 0
  /\ Before # <<>>
  /\ cmd.result = "invalid_id"
  /\ file = before

\* C9: add and complete leave the text before the first start marker and the
\* text after the first end marker that follows it as they were.
C9_OnlyFirstSpan ==
  ((Succeeded("add") \/ Succeeded("complete")) /\ Span(before) # <<0, 0>>)
    => LET m == Span(before)
           tail == SubSeq(before, m[2] + 1, Len(before))
       IN /\ Len(file) >= (m[1] - 1) + Len(tail)
          /\ SubSeq(file, 1, m[1] - 1) = SubSeq(before, 1, m[1] - 1)
          /\ SubSeq(file, Len(file) - Len(tail) + 1, Len(file)) = tail

(* ------------------------ build_task_line alone ------------------------ *)

BuildInputs ==
  [index : 1..MaxLabel,
   task : { <<"x">>, <<"x", SP, "n">> },
   priority : { <<>> } \cup { <<v>> : v \in (0 - 1)..5 },
   due : { <<>>, <<2024, 2, 29>>, <<2023, 2, 29>> },
   assigned : { <<>>, <<"kim">> }]

InitBuild ==
  /\ pc = "call"
  /\ input \in BuildInputs
  /\ output = <<>>
  /\ file = <<>> /\ origin = <<>> /\ before = <<>> /\ cmd = NoCmd

Build ==
  /\ pc = "call"
  /\ output' = build_task_line(input.index, input.task, input.priority,
                               input.due, input.assigned)
  /\ pc' = "ret"
  /\ UNCHANGED <<file, origin, before, cmd, input>>

SpecBuild == InitBuild /\ [][Build]_vars

\* the fields that are present, each after one space
PriorityField(priority) ==
  IF priority = <<1>> THEN <<SP, "[LOW]">>
  ELSE IF priority = <<2>> THEN <<SP, "[MEDIUM]">>
  ELSE IF priority = <<3>> THEN <<SP, "[HIGH]">>
  ELSE IF priority = <<4>> THEN <<SP, "[URGENT]">>
  ELSE <<>>

DueField(due) == IF due = <<>> THEN <<>> ELSE <<SP, "Due:", SP, DateStr(due)>>

AssignedField(assigned) ==
  IF assigned = <<>> THEN <<>> ELSE <<SP, "Assigned:", SP>> \o assigned

\* C10: the line holds the present fields in the order index, priority,
\* description, due, assignee, one space between two of them; a priority
\* outside 1..4 gives the line that no priority gives.
C10_FieldsSingleSpaced ==
  (pc = "ret" /\ output.ok)
    => output.line = <<Label(input.index)>> \o PriorityField(input.priority)
                       \o <<SP>> \o input.task \o DueField(input.due)
                       \o AssignedField(input.assigned)

(* ------------------- writing a block and parsing it -------------------- *)

\* lines that hold no marker and no newline, and neither are empty nor begin
\* or end with a space
RoundTripLines == { <<"x">>, Line1, <<Label(2), SP, "x", SP, "n">> }

RoundTripLists ==
  { <<>> } \cup { <<a>> : a \in RoundTripLines }
    \cup { <<a, b>> : a \in RoundTripLines, b \in RoundTripLines }

\* the texts that hold both markers or neither
RoundTripTexts ==
  { t \in InitFiles : Has(TODO_START, t) <=> Has(TODO_END, t) }

InitRoundTrip ==
  /\ pc = "call"
  /\ input \in [text : RoundTripTexts, lines : RoundTripLists]
  /\ output = <<>>
  /\ file = <<>> /\ origin = <<>> /\ before = <<>> /\ cmd = NoCmd

\* the block written as add writes it, then parsed
WriteThenParse ==
  /\ pc = "call"
  /\ LET w == write_block(input.text, input.lines)
     IN output' = [written |-> w.ok, text |-> w.text,
                   parsed |-> parse_todo_block(w.text)]
  /\ pc' = "ret"
  /\ UNCHANGED <<file, origin, before, cmd, input>>

SpecRoundTrip == InitRoundTrip /\ [][WriteThenParse]_vars

\* C3: parsing the text the lines were written into returns the lines.
C3_RoundTrip ==
  pc = "ret"
    => (output.written /\ output.parsed.matched /\ output.parsed.todos = input.lines)

(* --------------------------- list and its sort ------------------------- *)

\* the lines list is run on hold at most this many tasks
MaxSortLen == 3

Reverse(s) == [i \in 1..Len(s) |-> s[Len(s) + 1 - i]]

\* str.lower(), token by token
Lower(tok) ==
  IF tok = "X" THEN "x"
  ELSE IF tok = "Kim" THEN "kim"
  ELSE IF tok = "Due:" THEN "due:"
  ELSE IF tok = "Assigned:" THEN "assigned:"
  ELSE tok

\* the tokens of the lines list sorts, lower-cased, in the order of their text
Collation ==
  <<SP, "(1)", "(2)", "(3)", "(4)", "(5)", "2024-01-01", "2024-05-01",
    "9999-12-31", "assigned:", "due:", "kim", "x">>

Rank(tok) == CHOOSE i \in 1..Len(Collation) : Collation[i] = tok

\* a < b for two strings, each a sequence of tokens
RECURSIVE StrLess(_, _)
StrLess(a, b) ==
  IF b = <<>> THEN FALSE
  ELSE IF a = <<>> THEN TRUE
  ELSE IF Head(a) = Head(b) THEN StrLess(Tail(a), Tail(b))
  ELSE Rank(Head(a)) < Rank(Head(b))

SortDates == {"2024-01-01", "2024-05-01"}

WordTokens == {"x", "X", "kim", "Kim"}

RECURSIVE SkipSpace(_, _)
SkipSpace(todo, i) ==
  IF i <= Len(todo) /\ todo[i] \in Whitespace THEN SkipSpace(todo, i + 1) ELSE i

\* re.search(r"Due:\s*(\d{4}-\d{2}-\d{2})", todo), from position from
RECURSIVE SearchDue(_, _)
SearchDue(todo, from) ==
  LET i == Find(todo, "Due:", from)
      j == SkipSpace(todo, i + 1)
  IN IF i = 0 THEN <<"9999-12-31">>
     ELSE IF j <= Len(todo) /\ todo[j] \in SortDates THEN <<todo[j]>>
     ELSE SearchDue(todo, i + 1)

extract_due(todo) == SearchDue(todo, 1)

\* the word characters from position i on
RECURSIVE WordRun(_, _)
WordRun(todo, i) ==
  IF i <= Len(todo) /\ todo[i] \in WordTokens
  THEN <<Lower(todo[i])>> \o WordRun(todo, i + 1) ELSE <<>>

\* re.search(r"Assigned:\s*(\w+)", todo), from position from
RECURSIVE SearchAssigned(_, _)
SearchAssigned(todo, from) ==
  LET i == Find(todo, "Assigned:", from)
      j == SkipSpace(todo, i + 1)
  IN IF i = 0 THEN <<>>
     ELSE IF WordRun(todo, j) # <<>> THEN WordRun(todo, j)
     ELSE SearchAssigned(todo, i + 1)

extract_assigned(todo) == SearchAssigned(todo, 1)

\* lambda x: x.lower()
lower_key(todo) == [i \in 1..Len(todo) |-> Lower(todo[i])]

\* the key function of a sort option that sorts by a key
KeyOf(sort, todo) ==
  IF sort \in {"a-z", "z-a"} THEN lower_key(todo)
  ELSE IF sort \in {"ascending_due_date", "descending_due_date"} THEN extract_due(todo)
  ELSE extract_assigned(todo)

\* todo put after the last line of the sorted list whose key is not greater
RECURSIVE Insert(_, _, _)
Insert(sorted, todo, sort) ==
  IF sorted = <<>> THEN <<todo>>
  ELSE IF StrLess(KeyOf(sort, todo), KeyOf(sort, sorted[Len(sorted)]))
  THEN Append(Insert(SubSeq(sorted, 1, Len(sorted) - 1), todo, sort), sorted[Len(sorted)])
  ELSE Append(sorted, todo)

\* list.sort(key=...): ascending, the lines of equal keys left in their order
RECURSIVE StableSort(_, _)
StableSort(todos, sort) ==
  IF todos = <<>> THEN <<>>
  ELSE Insert(StableSort(SubSeq(todos, 1, Len(todos) - 1), sort), todos[Len(todos)], sort)

\* descending as the reverse of the ascending sort
sorted_reverse_after(todos, sort) == Reverse(StableSort(todos, sort))

\* sorted(todos, key=..., reverse=True): the list is reversed, sorted, reversed
sorted_reverse(todos, sort) == Reverse(StableSort(Reverse(todos), sort))

\* sorted(todos, key=...)
sorted_by(todos, sort) == StableSort(todos, sort)

sort_options ==
  {"ascending_id", "descending_id", "a-z", "z-a", "ascending_due_date",
   "descending_due_date", "a-z_assignedname", "z-a_assignedname"}

\* the lines list shows for the option sort
Shown(todos, sort) ==
  IF sort = "descending_id" THEN Reverse(todos)
  ELSE IF sort \in {"a-z", "ascending_due_date", "a-z_assignedname"}
  THEN sorted_by(todos, sort)
  ELSE IF sort \in {"z-a", "descending_due_date", "z-a_assignedname"}
  THEN sorted_reverse(todos, sort)
  ELSE todos

\* list --sort sort, of a directory that holds the file; sort is <<>> when the
\* option is not given
List(sort) ==
  /\ pc = "call"
  /\ IF sort # <<>> /\ sort[1] \notin sort_options
     THEN output' = [ok |-> FALSE, shown |-> <<>>]
     ELSE output' = [ok |-> TRUE,
                     shown |-> Shown(parse_todo_block(input.text).todos,
                                     IF sort = <<>> THEN "" ELSE sort[1])]
  /\ input' = [input EXCEPT !.sort = sort]
  /\ pc' = "ret"
  /\ UNCHANGED <<file, origin, before, cmd>>

SortLines ==
  { <<"(1)", SP, "x", SP, "Due:", SP, "2024-05-01", SP, "Assigned:", SP, "Kim">>,
    <<"(2)", SP, "x", SP, "Due:", SP, "2024-01-01", SP, "Assigned:", SP, "kim">>,
    <<"(3)", SP, "X">>,
    <<"(3)", SP, "x">>,
    <<"(4)", SP, "x", SP, "Due:", SP, "2024-05-01">> }

\* the lists of distinct lines, up to MaxSortLen of them
RECURSIVE ListsOf(_)
ListsOf(n) ==
  IF n = 0 THEN { <<>> }
  ELSE ListsOf(n - 1) \cup
       { Append(l, t) : l \in { m \in ListsOf(n - 1) : Len(m) = n - 1 }, t \in SortLines }

SortLists ==
  { l \in ListsOf(MaxSortLen) : \A i, j \in 1..Len(l) : i # j => l[i] # l[j] }

SortArgs == { <<>>, <<"foo">> } \cup { <<o>> : o \in sort_options }

InitSort ==
  /\ pc = "call"
  /\ input \in { [text |-> <<"x", NL>> \o NewBlock(l) \o <<NL>>, sort |-> <<>>] :
                 l \in SortLists }
  /\ output = <<>>
  /\ file = <<>> /\ origin = <<>> /\ before = <<>> /\ cmd = NoCmd

NextSort == \E sort \in SortArgs : List(sort)

SpecSort == InitSort /\ [][NextSort]_vars

\* the lines of the file list has sorted
Listed == parse_todo_block(input.text).todos

Orders(n) ==
  { p \in [1..n -> 1..n] : \A i, j \in 1..n : i # j => p[i] # p[j] }

\* the key the comparison of an option reads from a line; the id options compare
\* no key, they keep or reverse the order of the file
ClaimKey(option, todo) ==
  IF option \in {"a-z", "z-a"} THEN lower_key(todo)
  ELSE IF option \in {"ascending_due_date", "descending_due_date"} THEN extract_due(todo)
  ELSE IF option \in {"a-z_assignedname", "z-a_assignedname"} THEN extract_assigned(todo)
  ELSE <<>>

====
